---- MODULE Spec2Model ----
(***************************************************************************)
(* Model of easy-simp (src/main.rs): main reads the review sheets and the  *)
(* rule sheet of a workbook, and gen derives the OpenCC table              *)
(* (traditional -> simplified) from them.                                  *)
(*                                                                         *)
(* A char is its Unicode code point.  Option<char> is a sequence of length *)
(* 0 (None) or 1 (Some).  A HashMap is a function whose DOMAIN is its key   *)
(* set; a HashSet is a set; a Vec and a String are sequences.              *)
(***************************************************************************)
EXTENDS Integers, Sequences, FiniteSets, TLC

\* ---------------------------------------------------------------- bounds
\* rows of each review sheet
MaxReviews == 1
\* rows of the rule sheet
MaxRules == 2

\* ------------------------------------------------------------ characters
\* U+9580, U+95E8: two ordinary characters
OrdinaryChars == {38272, 38376}
\* U+8A01: one of the radicals of is_radical
RadicalChar == {35329}
\* U+0020 and U+3000: two of the characters char::is_whitespace accepts
SpaceChars == {32, 12288}

Chars == OrdinaryChars \cup RadicalChar

is_radical(ch) ==
    ch \in {35329, 39136, 31993, 147966, 199666, 37330, 158063,
            18188, 30570, 24032, 21692, 26140, 33252, 25120}

\* char::is_whitespace: the Unicode White_Space property
is_whitespace(ch) ==
    ch \in (9..13) \cup {32, 133, 160, 5760} \cup (8192..8202)
           \cup {8232, 8233, 8239, 8287, 12288}

\* ----------------------------------------------------------------- types
Mapping == [trad : Chars, simp : Chars]

Review == [mapping : Mapping, fix : {<<>>} \cup {<<c>> : c \in Chars}]

\* -------------------------------------------------------------- HashMaps
EmptyMap == [k \in {} |-> 0]

Put(map, key, value) ==
    [k \in (DOMAIN map) \cup {key} |-> IF k = key THEN value ELSE map[k]]

\* ---------------------------------------------------------------- Review
derive_mapping(review) ==
    IF review.fix # <<>>
    THEN [trad |-> review.mapping.trad, simp |-> review.fix[1]]
    ELSE review.mapping

RECURSIVE derive_mappings(_)
derive_mappings(reviews) ==
    IF reviews = <<>> THEN <<>>
    ELSE LET mapping == derive_mapping(Head(reviews))
             rest == derive_mappings(Tail(reviews))
         IN  IF mapping.trad = mapping.simp THEN rest ELSE <<mapping>> \o rest

Range(seq) == {seq[i] : i \in DOMAIN seq}

\* U+FF1F, the mark that ends an undecided note
Undecided == {65311}

\* A row of a review sheet: the first char of cells 0 and 1, the text of
\* cell 2 and the first char, if any, of cell 3.
parse_review(row) ==
    LET mapping == [trad |-> row.trad, simp |-> row.simp]
        precise == row.precise
        compatible == row.compatible
    IN  IF precise = <<>> \/ precise[Len(precise)] \in Undecided
        THEN [mapping |-> mapping, fix |-> <<>>]
        ELSE [mapping |-> mapping,
              fix |-> IF compatible # <<>> THEN compatible ELSE <<precise[1]>>]

RECURSIVE parse_reviews(_)
parse_reviews(rows) ==
    IF rows = <<>> THEN <<>>
    ELSE <<parse_review(Head(rows))>> \o parse_reviews(Tail(rows))

\* The reviews of sheet two whose trad is (keep = TRUE) or is not a radical.
RECURSIVE split_radicals(_, _)
split_radicals(reviews, keep) ==
    IF reviews = <<>> THEN <<>>
    ELSE LET rest == split_radicals(Tail(reviews), keep)
         IN  IF is_radical(Head(reviews).mapping.trad) = keep
             THEN <<Head(reviews)>> \o rest
             ELSE rest

\* The loop over the chars of cells 2 and 3 of a rule row.  ok = FALSE is
\* the expect() that fails on a trad with no char after it.
RECURSIVE parse_output(_)
parse_output(chars) ==
    IF chars = <<>> THEN [ok |-> TRUE, output |-> <<>>]
    ELSE IF is_whitespace(Head(chars)) THEN parse_output(Tail(chars))
    ELSE IF Len(chars) < 2 THEN [ok |-> FALSE, output |-> <<>>]
    ELSE LET rest == parse_output(SubSeq(chars, 3, Len(chars)))
         IN  [ok |-> rest.ok,
              output |-> <<[trad |-> chars[1], simp |-> chars[2]]>> \o rest.output]

\* The loop over the rows of the rule sheet.
RECURSIVE parse_rules(_)
parse_rules(rows) ==
    IF rows = <<>> THEN [ok |-> TRUE, rules |-> <<>>]
    ELSE LET row == Head(rows)
             premise == [trad |-> row.trad, simp |-> row.simp]
             parsed == parse_output(row.row_2 \o row.row_3)
             rest == parse_rules(Tail(rows))
         IN  IF ~parsed.ok THEN [ok |-> FALSE, rules |-> <<>>]
             ELSE IF parsed.output = <<>> THEN rest
             ELSE [ok |-> rest.ok,
                   rules |-> IF rest.ok
                             THEN <<[premise |-> premise, output |-> parsed.output]>>
                                  \o rest.rules
                             ELSE <<>>]

\* ------------------------------------------------------------------- gen
\* score_output with the penalty of a rejected rule left out.
RECURSIVE score_output_no_penalty(_, _, _)
score_output_no_penalty(maps, out, accepted) ==
    IF out = <<>> THEN maps
    ELSE LET mapping == Head(out)
             old == IF mapping \in DOMAIN maps.scores
                    THEN maps.scores[mapping] ELSE 0
             cands == IF mapping.trad \in DOMAIN maps.inferred_mappings
                      THEN maps.inferred_mappings[mapping.trad] ELSE {}
             next == IF accepted
                     THEN [scores |-> Put(maps.scores, mapping, old + 1),
                           inferred_mappings |->
                               Put(maps.inferred_mappings, mapping.trad,
                                   cands \cup {mapping})]
                     ELSE [scores |-> Put(maps.scores, mapping, old),
                           inferred_mappings |-> maps.inferred_mappings]
         IN  score_output_no_penalty(next, Tail(out), accepted)

\* One rule row of the scoring loop: every mapping of the rule's output.
RECURSIVE score_output(_, _, _)
score_output(maps, out, accepted) ==
    IF out = <<>> THEN maps
    ELSE LET mapping == Head(out)
             old == IF mapping \in DOMAIN maps.scores
                    THEN maps.scores[mapping] ELSE 0
             cands == IF mapping.trad \in DOMAIN maps.inferred_mappings
                      THEN maps.inferred_mappings[mapping.trad] ELSE {}
             next == IF accepted
                     THEN [scores |-> Put(maps.scores, mapping, old + 1),
                           inferred_mappings |->
                               Put(maps.inferred_mappings, mapping.trad,
                                   cands \cup {mapping})]
                     ELSE [scores |-> Put(maps.scores, mapping, old - 1),
                           inferred_mappings |-> maps.inferred_mappings]
         IN  score_output(next, Tail(out), accepted)

RECURSIVE score_rules(_, _, _)
score_rules(maps, rs, prem) ==
    IF rs = <<>> THEN maps
    ELSE score_rules(score_output(maps, Head(rs).output, Head(rs).premise \in prem),
                     Tail(rs), prem)

\* best_simps with the comparison of max_by reversed.
best_simps_min(mappings, sc) ==
    IF Cardinality(mappings) = 1 THEN {m.simp : m \in mappings}
    ELSE {m.simp : m \in {m1 \in mappings : \A m2 \in mappings : sc[m1] <= sc[m2]}}

\* max_by returns the last of the maximal elements in the iteration order
\* of the HashSet, which the hasher's random state decides: any candidate
\* of maximal score can be the result.  A set of one is never compared.
best_simps(mappings, sc) ==
    IF Cardinality(mappings) = 1 THEN {m.simp : m \in mappings}
    ELSE {m.simp : m \in {m1 \in mappings : \A m2 \in mappings : sc[m2] <= sc[m1]}}

\* unwrap() on an empty candidate set, or scores[m] on a missing key.
resolve_panics(im, sc) ==
    \E trad \in DOMAIN im :
        \/ im[trad] = {}
        \/ Cardinality(im[trad]) > 1 /\ ~(im[trad] \subseteq DOMAIN sc)

\* Every table the resolver can build.
resolutions(im, sc) ==
    {f \in [DOMAIN im -> UNION {best_simps(im[t], sc) : t \in DOMAIN im}] :
        \A trad \in DOMAIN im : f[trad] \in best_simps(im[trad], sc)}

\* chain with the resolution of a pinned trad replacing its explicit simp.
chain_unpinned(out, simps) ==
    [i \in DOMAIN out |->
        IF out[i].trad \in DOMAIN simps
        THEN [trad |-> out[i].trad, simp |-> simps[out[i].trad]]
        ELSE IF out[i].simp \in DOMAIN simps
        THEN [trad |-> out[i].trad, simp |-> simps[out[i].simp]]
        ELSE out[i]]

\* chain with the rewritten simp looked up once more.
chain_two_hops(out, simps) ==
    [i \in DOMAIN out |->
        IF out[i].simp \in DOMAIN simps
        THEN [trad |-> out[i].trad,
              simp |-> IF simps[out[i].simp] \in DOMAIN simps
                       THEN simps[simps[out[i].simp]]
                       ELSE simps[out[i].simp]]
        ELSE out[i]]

\* The pinning and chaining loop over the explicit mappings.
chain(out, simps) ==
    [i \in DOMAIN out |->
        IF out[i].simp \in DOMAIN simps
        THEN [trad |-> out[i].trad, simp |-> simps[out[i].simp]]
        ELSE out[i]]

\* The append loop: the mappings of one rule's output that won.
RECURSIVE append_output(_, _)
append_output(out, simps) ==
    IF out = <<>> THEN [ok |-> TRUE, output |-> <<>>]
    ELSE IF Head(out).trad \notin DOMAIN simps THEN [ok |-> FALSE, output |-> <<>>]
    ELSE LET rest == append_output(Tail(out), simps)
         IN  [ok |-> rest.ok,
              output |-> IF ~rest.ok THEN <<>>
                         ELSE IF Head(out).simp = simps[Head(out).trad]
                         THEN <<Head(out)>> \o rest.output
                         ELSE rest.output]

\* append_rules with the rejected rules not skipped.
RECURSIVE append_rules_no_skip(_, _, _)
append_rules_no_skip(rs, prem, simps) ==
    IF rs = <<>> THEN [ok |-> TRUE, output |-> <<>>]
    ELSE LET rest == append_rules_no_skip(Tail(rs), prem, simps)
             this == append_output(Head(rs).output, simps)
         IN  IF this.ok /\ rest.ok
             THEN [ok |-> TRUE, output |-> this.output \o rest.output]
             ELSE [ok |-> FALSE, output |-> <<>>]

RECURSIVE append_rules(_, _, _)
append_rules(rs, prem, simps) ==
    IF rs = <<>> THEN [ok |-> TRUE, output |-> <<>>]
    ELSE LET rest == append_rules(Tail(rs), prem, simps)
             this == IF Head(rs).premise \in prem
                     THEN append_output(Head(rs).output, simps)
                     ELSE [ok |-> TRUE, output |-> <<>>]
         IN  IF this.ok /\ rest.ok
             THEN [ok |-> TRUE, output |-> this.output \o rest.output]
             ELSE [ok |-> FALSE, output |-> <<>>]

\* dedup with every mapping written.
dedup_off(out, dup) == out

\* The write loop: a line per mapping whose trad was not written before.
RECURSIVE dedup(_, _)
dedup(out, dup) ==
    IF out = <<>> THEN <<>>
    ELSE IF Head(out).trad \in dup THEN dedup(Tail(out), dup)
    ELSE <<Head(out)>> \o dedup(Tail(out), dup \cup {Head(out).trad})

\* The text of the file: trad, TAB, simp, LF for every line.
RECURSIVE serialize(_)
serialize(lines) ==
    IF lines = <<>> THEN <<>>
    ELSE <<Head(lines).trad, 9, Head(lines).simp, 10>> \o serialize(Tail(lines))

\* ---------------------------------------------------------------- inputs
SeqsUpTo(S, n) == UNION {[1..k -> S] : k \in 0..n}

ReviewRow(t, s, p, c) == [trad |-> t, simp |-> s, precise |-> p, compatible |-> c]

RuleRow(t, s, r2, r3) == [trad |-> t, simp |-> s, row_2 |-> r2, row_3 |-> r3]

\* Rows of the sheets of standalone characters: a plain review, a review
\* with a precise note, and an undecided review of a radical.
Sheet1Rows ==
    { ReviewRow(38272, 35329, <<>>, <<>>),
      ReviewRow(38272, 38272, <<38376>>, <<>>),
      ReviewRow(35329, 38376, <<38376, 65311>>, <<38272>>) }

\* Rows of sheet two: a character, a radical, and a review with a
\* compatible variant.
Sheet2Rows ==
    { ReviewRow(38272, 38376, <<>>, <<>>),
      ReviewRow(35329, 38272, <<>>, <<>>),
      ReviewRow(38376, 38376, <<35329>>, <<38272>>) }

\* Cells 2 and 3 of the rows of the rule sheet.
RuleTexts ==
    { <<<<38272, 35329>>, <<>>>>,
      <<<<38272, 38376>>, <<38376, 38272>>>>,
      <<<<38376, 35329>>, <<35329, 38272>>>>,
      <<<<38272, 38376>>, <<38272, 35329>>>> }

RulePremises == { <<38272, 38376>>, <<35329, 38272>> }

Sheet3Rows ==
    { RuleRow(p[1], p[2], t[1], t[2]) : p \in RulePremises, t \in RuleTexts }

\* ----------------------------------------------------------------- state
VARIABLES
    table1,             \* rows of the sheets of standalone characters
    table2,             \* rows of sheet two
    table3,             \* rows of the rule sheet
    char_reviews, ichar_reviews, radical_reviews, rules,
    premise, output, inferred_mappings, scores, inferred_simps,
    pinned_trads,
    text,               \* the file written: <<>> (no file) or <<its text>>
    prev_text,          \* the file an earlier run on the same workbook wrote
    pc

inputs == <<table1, table2, table3>>

locals == <<char_reviews, ichar_reviews, radical_reviews, rules, premise,
            output, inferred_mappings, scores, inferred_simps, pinned_trads>>

vars == <<inputs, locals, text, prev_text, pc>>

Start ==
    /\ char_reviews = <<>> /\ ichar_reviews = <<>> /\ radical_reviews = <<>>
    /\ rules = <<>>
    /\ premise = {} /\ output = <<>>
    /\ inferred_mappings = EmptyMap /\ scores = EmptyMap
    /\ inferred_simps = EmptyMap
    /\ pinned_trads = {}
    /\ text = <<>>
    /\ pc = "main"

Init ==
    /\ table1 \in SeqsUpTo(Sheet1Rows, MaxReviews)
    /\ table2 \in SeqsUpTo(Sheet2Rows, MaxReviews)
    /\ table3 \in SeqsUpTo(Sheet3Rows, MaxRules)
    /\ prev_text = <<>>
    /\ Start

\* main, up to the call of gen.
Main ==
    /\ pc = "main"
    /\ LET parsed == parse_rules(table3)
           sheet2 == parse_reviews(table2)
       IN  IF parsed.ok
           THEN /\ char_reviews' = parse_reviews(table1)
                /\ radical_reviews' = split_radicals(sheet2, TRUE)
                /\ ichar_reviews' = split_radicals(sheet2, FALSE)
                /\ rules' = parsed.rules
                /\ pc' = "gen"
           ELSE /\ pc' = "abort"
                /\ UNCHANGED <<char_reviews, ichar_reviews, radical_reviews, rules>>
    /\ UNCHANGED <<inputs, premise, output, inferred_mappings, scores,
                   inferred_simps, pinned_trads, text, prev_text>>

\* gen: the output pool and the premise set.
Derive ==
    /\ pc = "gen"
    /\ LET ichar_mappings == derive_mappings(ichar_reviews)
       IN  /\ output' = derive_mappings(char_reviews) \o ichar_mappings
           /\ premise' = Range(derive_mappings(radical_reviews))
                            \cup Range(ichar_mappings)
    /\ pc' = "score"
    /\ UNCHANGED <<inputs, char_reviews, ichar_reviews, radical_reviews, rules,
                   inferred_mappings, scores, inferred_simps, pinned_trads,
                   text, prev_text>>

\* gen: the scoring loop.
Score ==
    /\ pc = "score"
    /\ LET maps == score_rules([scores |-> EmptyMap, inferred_mappings |-> EmptyMap],
                               rules, premise)
       IN  /\ scores' = maps.scores
           /\ inferred_mappings' = maps.inferred_mappings
    /\ pc' = "resolve"
    /\ UNCHANGED <<inputs, char_reviews, ichar_reviews, radical_reviews, rules,
                   premise, output, inferred_simps, pinned_trads, text, prev_text>>

\* gen: the conflict resolver.
Resolve ==
    /\ pc = "resolve"
    /\ IF resolve_panics(inferred_mappings, scores)
       THEN pc' = "panic" /\ UNCHANGED inferred_simps
       ELSE /\ inferred_simps' \in resolutions(inferred_mappings, scores)
            /\ pc' = "chain"
    /\ UNCHANGED <<inputs, char_reviews, ichar_reviews, radical_reviews, rules,
                   premise, output, inferred_mappings, scores, pinned_trads,
                   text, prev_text>>

\* gen: pinning and chaining.
Chain ==
    /\ pc = "chain"
    /\ pinned_trads' = {output[i].trad : i \in DOMAIN output}
    /\ output' = chain(output, inferred_simps)
    /\ pc' = "append"
    /\ UNCHANGED <<inputs, char_reviews, ichar_reviews, radical_reviews, rules,
                   premise, inferred_mappings, scores, inferred_simps,
                   text, prev_text>>

\* gen: the winners of the accepted rules, in the order of the sheet.
Assemble ==
    /\ pc = "append"
    /\ LET won == append_rules(rules, premise, inferred_simps)
       IN  IF won.ok
           THEN output' = output \o won.output /\ pc' = "write"
           ELSE pc' = "panic" /\ UNCHANGED output
    /\ UNCHANGED <<inputs, char_reviews, ichar_reviews, radical_reviews, rules,
                   premise, inferred_mappings, scores, inferred_simps,
                   pinned_trads, text, prev_text>>

\* gen: the file.
Write ==
    /\ pc = "write"
    /\ text' = <<serialize(dedup(output, {}))>>
    /\ pc' = "done"
    /\ UNCHANGED <<inputs, locals, prev_text>>

Next == Main \/ Derive \/ Score \/ Resolve \/ Chain \/ Assemble \/ Write

Spec == Init /\ [][Next]_vars

\* A second run of the program on the same workbook.
Rerun ==
    /\ pc = "done"
    /\ prev_text = <<>>
    /\ prev_text' = text
    /\ char_reviews' = <<>> /\ ichar_reviews' = <<>> /\ radical_reviews' = <<>>
    /\ rules' = <<>>
    /\ premise' = {} /\ output' = <<>>
    /\ inferred_mappings' = EmptyMap /\ scores' = EmptyMap
    /\ inferred_simps' = EmptyMap
    /\ pinned_trads' = {}
    /\ pc' = "main"
    /\ UNCHANGED <<inputs, text>>

NextRerun == Next \/ Rerun

SpecRerun == Init /\ [][NextRerun]_vars

\* One rule row whose premise sheet two accepts, with any short text in
\* cells 2 and 3.
MaxText == 2

TextChars == OrdinaryChars \cup SpaceChars

InitParse ==
    /\ table1 = <<>>
    /\ table2 = <<ReviewRow(38272, 38376, <<>>, <<>>)>>
    /\ \E r2 \in SeqsUpTo(TextChars, MaxText), r3 \in SeqsUpTo(TextChars, MaxText) :
           table3 = <<RuleRow(38272, 38376, r2, r3)>>
    /\ prev_text = <<>>
    /\ Start

SpecParse == InitParse /\ [][Next]_vars

\* ------------------------------------------------------------ properties
\* The lines of the file written, read back from its text.
Lines ==
    IF text = <<>> THEN <<>>
    ELSE [i \in 1..(Len(text[1]) \div 4) |->
            [trad |-> text[1][4 * i - 3], simp |-> text[1][4 * i - 1]]]

\* The explicit mappings, as the reviews give them (before chaining).
Explicit == derive_mappings(char_reviews) \o derive_mappings(ichar_reviews)

FirstExplicit(i) == \A j \in 1..(i - 1) : Explicit[j].trad # Explicit[i].trad

\* The places <<rule, index>> of the outputs of accepted and rejected rules.
Places(accepted) ==
    UNION {{<<k, j>> : j \in DOMAIN rules[k].output} :
              k \in {k1 \in DOMAIN rules : (rules[k1].premise \in premise) = accepted}}

At(place) == rules[place[1]].output[place[2]]

Candidates(trad) == {At(q) : q \in {q1 \in Places(TRUE) : At(q1).trad = trad}}

\* The outputs of the accepted rules, in the order of the sheet.
RECURSIVE AcceptedOutputs(_)
AcceptedOutputs(rs) ==
    IF rs = <<>> THEN <<>>
    ELSE (IF Head(rs).premise \in premise THEN Head(rs).output ELSE <<>>)
         \o AcceptedOutputs(Tail(rs))

Won(m) == m.simp = inferred_simps[m.trad]

Resolved == pc \in {"chain", "append", "write", "done"}

\* C1: no line of the file maps a character to itself.
C1_NoSelfMappings ==
    pc = "done" => \A i \in DOMAIN Lines : Lines[i].trad # Lines[i].simp

\* C2: no trad is on two lines of the file; of the mappings of the output
\* pool with one trad, the first in pool order (the explicit mappings in
\* review order, then the analogy winners in rule order) is the one written.
C2_Uniqueness ==
    pc = "done" =>
        /\ \A i, j \in DOMAIN Lines : Lines[i].trad = Lines[j].trad => i = j
        /\ {Lines[i].trad : i \in DOMAIN Lines} = {output[i].trad : i \in DOMAIN output}
        /\ \A i \in DOMAIN output :
               (\A j \in 1..(i - 1) : output[j].trad # output[i].trad)
                   => output[i] \in Range(Lines)
        /\ Len(output) >= Len(Explicit)
        /\ \A i \in DOMAIN Explicit : output[i].trad = Explicit[i].trad
        /\ SubSeq(output, Len(Explicit) + 1, Len(output))
               = SelectSeq(AcceptedOutputs(rules), Won)

C2_Witness ==
    /\ pc = "done"
    /\ \E i, j \in DOMAIN output :
           /\ i < j /\ j <= Len(Explicit)
           /\ output[i].trad = output[j].trad /\ output[i].simp # output[j].simp
    /\ \E i, j \in DOMAIN output :
           /\ i <= Len(Explicit) /\ j > Len(Explicit)
           /\ output[i].trad = output[j].trad /\ output[i].simp # output[j].simp

\* C3 as claimed: every explicit mapping A->B whose B the resolver has no
\* entry for is written, and no A->C of an accepted rule (C # B) is.
C3_ExplicitPrecedence_Claimed ==
    pc = "done" =>
        \A i \in DOMAIN Explicit : \A q \in Places(TRUE) :
            (/\ At(q).trad = Explicit[i].trad
             /\ At(q).simp # Explicit[i].simp
             /\ Explicit[i].simp \notin DOMAIN inferred_simps)
            => Explicit[i] \in Range(Lines) /\ At(q) \notin Range(Lines)

\* C3: the first explicit mapping A->B of a trad A, whose B the resolver
\* has no entry for, is written, and no A->C of an accepted rule (C # B) is.
C3_ExplicitPrecedence ==
    pc = "done" =>
        \A i \in DOMAIN Explicit : \A q \in Places(TRUE) :
            (/\ FirstExplicit(i)
             /\ At(q).trad = Explicit[i].trad
             /\ At(q).simp # Explicit[i].simp
             /\ Explicit[i].simp \notin DOMAIN inferred_simps)
            => Explicit[i] \in Range(Lines) /\ At(q) \notin Range(Lines)

\* An explicit A->B and an accepted rule whose A->C won its resolution.
C3_Witness ==
    /\ pc = "done"
    /\ \E i \in DOMAIN Explicit : \E q \in Places(TRUE) :
           /\ FirstExplicit(i)
           /\ At(q).trad = Explicit[i].trad
           /\ At(q).simp # Explicit[i].simp
           /\ Explicit[i].simp \notin DOMAIN inferred_simps
           /\ inferred_simps[At(q).trad] = At(q).simp
           /\ At(q) \in Range(output)

\* C4 as claimed: every explicit A->B with a resolution C of B gives the
\* line A->C.
C4_OneHopChaining_Claimed ==
    pc = "done" =>
        \A i \in DOMAIN Explicit :
            Explicit[i].simp \in DOMAIN inferred_simps
            => [trad |-> Explicit[i].trad,
                simp |-> inferred_simps[Explicit[i].simp]] \in Range(Lines)

\* C4: the first explicit mapping A->B of a trad A, with a resolution C of
\* B, gives the line A->C, whether or not C has a resolution of its own.
C4_OneHopChaining ==
    pc = "done" =>
        \A i \in DOMAIN Explicit :
            (FirstExplicit(i) /\ Explicit[i].simp \in DOMAIN inferred_simps)
            => [trad |-> Explicit[i].trad,
                simp |-> inferred_simps[Explicit[i].simp]] \in Range(Lines)

\* A chain of two hops: A->B explicit, B resolved to C, C resolved to
\* something else.
C4_Witness ==
    /\ pc = "done"
    /\ \E i \in DOMAIN Explicit :
           /\ FirstExplicit(i)
           /\ Explicit[i].simp \in DOMAIN inferred_simps
           /\ inferred_simps[Explicit[i].simp] \in DOMAIN inferred_simps
           /\ inferred_simps[inferred_simps[Explicit[i].simp]]
                  # inferred_simps[Explicit[i].simp]

\* C5: the resolver has an entry for exactly the trads of the outputs of
\* accepted rules, each the simp of a candidate of maximal score; a trad
\* with no explicit mapping has one line, to its resolution.
C5_ScoreResolution ==
    Resolved =>
        /\ DOMAIN inferred_simps = {At(q).trad : q \in Places(TRUE)}
        /\ \A X \in DOMAIN inferred_simps :
               /\ \E m \in Candidates(X) :
                      /\ m.simp = inferred_simps[X]
                      /\ \A m2 \in Candidates(X) : scores[m2] <= scores[m]
               /\ (pc = "done" /\ \A i \in DOMAIN Explicit : Explicit[i].trad # X)
                  => /\ \E i \in DOMAIN Lines :
                            Lines[i] = [trad |-> X, simp |-> inferred_simps[X]]
                     /\ \A i \in DOMAIN Lines :
                            Lines[i].trad = X => Lines[i].simp = inferred_simps[X]

\* Two candidates of different scores for a trad with no explicit mapping.
C5_Witness ==
    /\ pc = "done"
    /\ \E X \in DOMAIN inferred_simps :
           /\ \A i \in DOMAIN Explicit : Explicit[i].trad # X
           /\ \E m1, m2 \in Candidates(X) : scores[m1] < scores[m2]

\* C6: after the scoring pass the score of a mapping is the number of its
\* places in accepted rules minus the number in rejected rules; only
\* accepted rules give candidates, so a trad of rejected rules only has no
\* resolution and no line of its own.
C6_RejectedVeto ==
    pc \in {"resolve", "chain", "append", "write", "done", "panic"} =>
        /\ DOMAIN scores = {At(q) : q \in Places(TRUE) \cup Places(FALSE)}
        /\ \A m \in DOMAIN scores :
               scores[m] = Cardinality({q \in Places(TRUE) : At(q) = m})
                           - Cardinality({q \in Places(FALSE) : At(q) = m})
        /\ DOMAIN inferred_mappings = {At(q).trad : q \in Places(TRUE)}
        /\ \A X \in DOMAIN inferred_mappings : inferred_mappings[X] = Candidates(X)
        /\ \A q \in Places(FALSE) :
               At(q).trad \notin {At(q1).trad : q1 \in Places(TRUE)}
               => /\ Resolved => At(q).trad \notin DOMAIN inferred_simps
                  /\ (pc = "done" /\ \A i \in DOMAIN Explicit :
                                         Explicit[i].trad # At(q).trad)
                     => \A i \in DOMAIN Lines : Lines[i].trad # At(q).trad

\* Two candidates proposed equally often by accepted rules, one of them
\* also by a rejected rule: the other one is written.  And a trad that
\* only a rejected rule proposes.
C6_Witness ==
    /\ pc = "done"
    /\ \E X \in DOMAIN inferred_simps : \E m1, m2 \in Candidates(X) :
           /\ m1 # m2
           /\ Cardinality({q \in Places(TRUE) : At(q) = m1})
                  = Cardinality({q \in Places(TRUE) : At(q) = m2})
           /\ \E q \in Places(FALSE) : At(q) = m1
           /\ m2 \in Range(Lines)
    /\ \E q \in Places(FALSE) : At(q).trad \notin DOMAIN inferred_simps

\* C7: a second run on the same workbook writes the same file.
C7_Deterministic ==
    (pc = "done" /\ prev_text # <<>>) => text = prev_text

\* C8: no line of the file has the radical trad of a review.
C8_RadicalExclusivity ==
    pc = "done" =>
        \A review \in Range(parse_reviews(table1 \o table2)) :
            is_radical(review.mapping.trad)
            => \A i \in DOMAIN Lines : Lines[i].trad # review.mapping.trad

\* The pairing the rule sheet is documented to have: the chars of cells 2
\* and 3 that are not whitespace, two by two.
RECURSIVE strip(_)
strip(chars) ==
    IF chars = <<>> THEN <<>>
    ELSE IF is_whitespace(Head(chars)) THEN strip(Tail(chars))
    ELSE <<Head(chars)>> \o strip(Tail(chars))

Pairs(chars) ==
    [i \in 1..(Len(chars) \div 2) |->
        [trad |-> chars[2 * i - 1], simp |-> chars[2 * i]]]

\* C9: a rule row's output is the pairing of its chars that are not
\* whitespace; a row with an odd number of them aborts the run with no
\* file written.
C9_RulePairing ==
    (pc # "main" /\ Len(table3) = 1) =>
        LET chars == strip(table3[1].row_2 \o table3[1].row_3)
        IN  IF Len(chars) % 2 = 1
            THEN pc = "abort" /\ text = <<>>
            ELSE /\ pc # "abort"
                 /\ rules = IF chars = <<>> THEN <<>>
                            ELSE <<[premise |-> [trad |-> table3[1].trad,
                                                 simp |-> table3[1].simp],
                                    output |-> Pairs(chars)]>>

\* C10: gen does not panic on a missing key: the candidates the resolver
\* compares have scores, no candidate set is empty, and every trad of an
\* accepted rule's output has a resolution.
C10_NoMissingKey ==
    /\ pc # "panic"
    /\ pc = "resolve" =>
           \A X \in DOMAIN inferred_mappings :
               inferred_mappings[X] # {} /\ inferred_mappings[X] \subseteq DOMAIN scores
    /\ pc = "append" =>
           \A q \in Places(TRUE) : At(q).trad \in DOMAIN inferred_simps

\* A file written after the resolver compared two candidates and the
\* assembler looked up the outputs of an accepted rule, a rejected rule
\* being skipped.
C10_Witness ==
    /\ pc = "done"
    /\ \E X \in DOMAIN inferred_mappings : Cardinality(inferred_mappings[X]) > 1
    /\ Places(FALSE) # {}

====
